---------------------------- MODULE Spec2Model ----------------------------
(* Model of the picture-book generation pipeline:                          *)
(*   backend/app/services/retry_helper.py  (retry_on_failure)              *)
(*   backend/app/services/ai_service.py    (AIService)                     *)
(*   backend/app/services/book_service.py  (BookService)                   *)
(*   backend/app/services/book_tasks.py    (generate_book_content_task)    *)
(*   backend/app/api/routes.py             (ConnectionManager, cancel)     *)
(*   backend/app/core/celery_app.py        (worker configuration)          *)
EXTENDS Integers, Sequences, FiniteSets, TLC

VARIABLES
    book,               \* the PictureBook row: status, cover_image and the
                        \* run that wrote the status last
    pages,              \* committed book_pages rows, in insertion order
    runs,               \* execution context -> orchestrator run in progress
    job,                \* the book's Celery job: the state kept by the result
                        \* backend, and whether its message is in the queue
    revoked,            \* the job's id is in the workers' revoked set
    active_connections, \* ConnectionManager.active_connections
    ws,                 \* connection id -> state of the websocket
    inbox,              \* connection id -> events delivered to the client
    nstarted,           \* number of orchestrator runs started so far
    nservice,           \* number of direct BookService runs started so far
    faults,             \* number of environment faults injected so far
    request,            \* the BookCreateRequest the book was created from
    rc,                 \* the Content Client call exercised on its own
    fb,                 \* an APIClientWithFallback instance
    api,                \* the response of POST /books, once it has returned
    limiter,            \* a MemoryRateLimiter instance
    clock,              \* time.time(), in seconds
    history,            \* the is_allowed calls made so far, with their results
    solo,               \* identifier -> the limiter and the calls of the run
                        \* in which only that identifier calls is_allowed
    last                \* the last repository operation made on request, with
                        \* what it returned

auxVars == <<fb, api, limiter, clock, history, solo, last>>

vars == <<book, pages, runs, job, revoked, active_connections, ws, inbox,
          nstarted, nservice, faults, request, rc, auxVars>>

pipelineVars == <<book, pages, runs, job, revoked, active_connections, ws,
                  inbox, nstarted, nservice, faults, request, auxVars>>

-----------------------------------------------------------------------------
(* Program constants *)

max_retries == 3
delay == 2
backoff_factor == 2
worker_concurrency == 2
CommitEvery == 5

(* Bounds of the model *)

PageCount == 5          \* page_count of the requests (the schema allows 4..20)
MaxServiceRuns == 1     \* direct invocations of BookService.generate_book_content
MaxFaults == 1          \* failing remote calls, broken sockets, lost workers
MaxCalls == 4           \* is_allowed calls made on the rate limiter
MaxClock == 3           \* seconds slept in steps of one second
MaxPosts == 11          \* POST /books requests of one client

-----------------------------------------------------------------------------
(* Retrying Content Client *)

\* "repairable": json.loads fails on the content and succeeds on the repaired
\* text; "malformed": no JSON object in the content, or the repaired text
\* does not parse either.
Responses == {"ok", "timeout", "connection", "auth", "rate_limit", "server",
              "repairable", "malformed"}

\* the answers that concern the text of a chat completion only
TextOnly == {"repairable", "malformed"}

\* one scripted response more than the wrapper is meant to consume
ScriptLen == max_retries + 2

Scripts == [1..ScriptLen -> Responses]

\* The exception one invocation of AIService.generate_story raises for a
\* remote response: every branch re-raises as APICallError(status_code).
\* `repairs` counts the json.loads calls made on a repaired text.
generate_story(resp) ==
    CASE resp = "ok"         -> [ok |-> TRUE,  status_code |-> 0,   repairs |-> 0]
      [] resp = "repairable" -> [ok |-> TRUE,  status_code |-> 0,   repairs |-> 1]
      [] resp = "timeout"    -> [ok |-> FALSE, status_code |-> 0,   repairs |-> 0]
      [] resp = "connection" -> [ok |-> FALSE, status_code |-> 0,   repairs |-> 0]
      [] resp = "auth"       -> [ok |-> FALSE, status_code |-> 401, repairs |-> 0]
      [] resp = "rate_limit" -> [ok |-> FALSE, status_code |-> 429, repairs |-> 0]
      [] resp = "server"     -> [ok |-> FALSE, status_code |-> 500, repairs |-> 0]
      [] OTHER               -> [ok |-> FALSE, status_code |-> 0,   repairs |-> 1]

\* AIService.generate_image: no branch of its own for authentication or
\* status errors, they fall into the generic handler.
generate_image(resp) ==
    CASE resp = "ok"         -> [ok |-> TRUE,  status_code |-> 0,   repairs |-> 0]
      [] resp = "rate_limit" -> [ok |-> FALSE, status_code |-> 429, repairs |-> 0]
      [] OTHER               -> [ok |-> FALSE, status_code |-> 0,   repairs |-> 0]

func(fn, resp) ==
    IF fn = "generate_story" THEN generate_story(resp) ELSE generate_image(resp)

\* `except exceptions as e` with exceptions = (..., Exception): every
\* exception the wrapped function raises is caught.
exceptions(e) == TRUE

\* range(max_retries + 2): one iteration too many
attempt_range_extra == 0..(max_retries + 1)

\* range(max_retries + 1)
attempt_range == 0..max_retries

\* the delay is not multiplied between retries
next_delay_constant(current_delay) == current_delay

\* current_delay *= backoff_factor
next_delay(current_delay) == current_delay * backoff_factor

NoException == [kind |-> "none", status_code |-> 0, attempt |-> 0]

\* the first exception caught is kept
keep_first_exception(last_exception, e) ==
    IF last_exception = NoException THEN e ELSE last_exception

\* last_exception = e
catch(last_exception, e) == e

\* retry_on_failure.wrapper: the loop from iteration `attempt` on.  script[k]
\* is the remote service's answer to the k-th invocation.
RECURSIVE wrapper_loop(_, _, _, _, _, _, _)
wrapper_loop(fn, script, attempt, current_delay, sleeps, calls, last_exception) ==
    IF attempt \notin attempt_range
    THEN [returned |-> FALSE, raised |-> last_exception, attempts |-> Len(calls),
          calls |-> calls, sleeps |-> sleeps]
    ELSE LET slept == IF attempt > 0 THEN Append(sleeps, current_delay) ELSE sleeps
             nd    == IF attempt > 0 THEN next_delay(current_delay) ELSE current_delay
             resp  == script[Len(calls) + 1]
             r     == func(fn, resp)
             e     == [kind |-> resp, status_code |-> r.status_code,
                       attempt |-> Len(calls) + 1]
         IN  IF r.ok
             THEN [returned |-> TRUE, raised |-> [kind |-> "none", status_code |-> 0, attempt |-> 0],
                   attempts |-> Len(calls) + 1, calls |-> Append(calls, resp),
                   sleeps |-> slept]
             ELSE IF exceptions(e)
                  THEN wrapper_loop(fn, script, attempt + 1, nd, slept,
                                    Append(calls, resp), catch(last_exception, e))
                  ELSE [returned |-> FALSE, raised |-> e,
                        attempts |-> Len(calls) + 1,
                        calls |-> Append(calls, resp), sleeps |-> slept]

wrapper(fn, script) == wrapper_loop(fn, script, 0, delay, <<>>, <<>>, NoException)

RECURSIVE SumSeq(_)
SumSeq(s) == IF s = <<>> THEN 0 ELSE Head(s) + SumSeq(Tail(s))

IdleCall == [fn |-> "none", script |-> <<>>, out |-> wrapper("generate_story", [k \in 1..ScriptLen |-> "ok"]), busy |-> FALSE]

\* A caller invokes a decorated Content Client method; the remote service
\* answers the successive invocations with `script`.
Call(scripts) ==
    /\ ~rc.busy
    /\ \E fn \in {"generate_story", "generate_image"}, script \in scripts :
          /\ fn = "generate_image" => \A k \in 1..ScriptLen : script[k] \notin TextOnly
          /\ rc' = [fn |-> fn, script |-> script, out |-> wrapper(fn, script),
                    busy |-> TRUE]
    /\ UNCHANGED pipelineVars

ClientCall == Call(Scripts)

\* The answers of an endpoint that fails the first k attempts of a call in
\* one way and answers the later ones.
OutageScripts ==
    { [j \in 1..ScriptLen |-> IF j <= k THEN resp ELSE "ok"] :
        k \in 0..ScriptLen, resp \in Responses }

\* A Content Client call during or after an outage of the endpoint.
EndpointCall == Call(OutageScripts)

\* The caller has consumed the result (or the exception).
ClientReturn ==
    /\ rc.busy
    /\ rc' = IdleCall
    /\ UNCHANGED pipelineVars

-----------------------------------------------------------------------------
(* Repository, job queue and progress channel: the state *)

BookId == 1
ClientIds == {BookId}           \* send_progress(str(book_id), ...)
Conns == {"ws1", "ws2"}                \* websocket connections, by identity
NoConn == "none"
Workers == 1..worker_concurrency
ApiProcess == 0                 \* the process serving HTTP and websockets
Ctxs == {ApiProcess} \cup Workers
PageCounts == {PageCount}

NoUrl == [run |-> 0, pos |-> 0]                     \* image_url = None
Url(id, pos) == [run |-> id, pos |-> pos]           \* response.data[0].url

IdleRun == [kind |-> "none", id |-> 0, pc |-> "idle",
            page_count |-> 0, story |-> <<>>, image_urls |-> <<>>,
            story_state |-> "none", img_ok |-> {}, i |-> 0,
            published |-> <<>>, result |-> "none"]

NoJob == [state |-> "NONE", progress |-> 0, result |-> "none",
          queued |-> FALSE, page_count |-> 0]

\* generate_book_content_task.delay(book_id, request_data, user_id)
delay_task(count) == [state |-> "PENDING", progress |-> 0, result |-> "none",
                      queued |-> TRUE, page_count |-> count]

\* The page lists the text service may answer a request for pc pages with:
\* AIService.generate_story keeps the page_number of every entry as sent
\* and does not compare the number of entries with page_count.
WellFormed(pc) == [k \in 1..pc |-> k]
StoryShapes(pc) ==
    { WellFormed(pc),
      [k \in 1..(pc - 1) |-> k],
      [k \in 1..pc |-> IF k = 2 THEN 1 ELSE k],
      [k \in 1..pc |-> IF k = 1 THEN 2 ELSE IF k = 2 THEN 1 ELSE k],
      << >> }

\* BookCreateRequest.title is optional: "" stands for a request without one.
RequestTitles == {"", "request title"}

\* Python's `a or b` on strings
Or(a, b) == IF a # "" THEN a ELSE b

\* The title and the description of a StoryResponse: both are plain `str`
\* fields, generate_story copies them from the parsed response.
NormalMeta == [title |-> "story title", description |-> "story description"]
StoryMeta ==
    { NormalMeta,
      [title |-> "", description |-> "story description"],
      [title |-> "story title", description |-> ""] }

\* the story the request asks for: page_count pages numbered 1..page_count,
\* with a title and a description
Expected(r, shape, meta) == shape = WellFormed(r.page_count) /\ meta = NormalMeta

\* the responses drawn have at most one defect: in the pages or in the texts
OneDefect(r, shape, meta) == shape = WellFormed(r.page_count) \/ meta = NormalMeta

\* The remote answers the pipeline draws from.
PipelineScripts ==
    { [k \in 1..ScriptLen |-> "ok"],
      [k \in 1..ScriptLen |-> IF k <= 2 THEN "rate_limit" ELSE "ok"],
      [k \in 1..ScriptLen |-> "auth"],
      [k \in 1..ScriptLen |-> "timeout"] }

-----------------------------------------------------------------------------
(* retry_helper.APIClientWithFallback *)

None == "None"
BackupUrls == {None, "backup_url"}

\* APIClientWithFallback.__init__
APIClientWithFallback(backup_url) ==
    [primary_url |-> "primary_url", backup_url |-> backup_url,
     current_url |-> "primary_url", use_backup |-> FALSE]

\* The variables the fallback client's methods leave alone.
fbFrame == <<book, pages, runs, job, revoked, active_connections, ws, inbox,
             nstarted, nservice, faults, request, rc, api, limiter, clock,
             history, solo>>

\* what a method of the client returned
MethodReturned(method, value) ==
    [op |-> method, id |-> 0, result |-> value, pages_before |-> 0]

\* the switch is made whether or not a backup address is configured
switch_to_backup_unconfigured ==
    /\ IF ~fb.use_backup
       THEN /\ fb' = [fb EXCEPT !.current_url = fb.backup_url, !.use_backup = TRUE]
            /\ last' = MethodReturned("switch_to_backup", TRUE)
       ELSE /\ fb' = fb
            /\ last' = MethodReturned("switch_to_backup", FALSE)
    /\ UNCHANGED fbFrame

\* APIClientWithFallback.switch_to_backup.  No code of the repository calls
\* it: the caller is outside the program.
switch_to_backup ==
    /\ IF fb.backup_url # None /\ ~fb.use_backup
       THEN /\ fb' = [fb EXCEPT !.current_url = fb.backup_url, !.use_backup = TRUE]
            /\ last' = MethodReturned("switch_to_backup", TRUE)
       ELSE /\ fb' = fb
            /\ last' = MethodReturned("switch_to_backup", FALSE)
    /\ UNCHANGED fbFrame

\* APIClientWithFallback.switch_to_primary
switch_to_primary ==
    /\ IF fb.use_backup
       THEN /\ fb' = [fb EXCEPT !.current_url = fb.primary_url, !.use_backup = FALSE]
            /\ last' = MethodReturned("switch_to_primary", TRUE)
       ELSE /\ fb' = fb
            /\ last' = MethodReturned("switch_to_primary", FALSE)
    /\ UNCHANGED fbFrame

-----------------------------------------------------------------------------
(* core/rate_limit.MemoryRateLimiter *)

Identifiers == {"user_a", "user_b"}
CleanupInterval == 60
MaxRequests == {1, 2}
WindowSeconds == {2}

\* MemoryRateLimiter.__init__ at time t
MemoryRateLimiter(max_requests, window_seconds, t) ==
    [max_requests |-> max_requests, window_seconds |-> window_seconds,
     _requests |-> [id \in Identifiers |-> << >>], _last_cleanup |-> t]

\* [ts for ts in self._requests[identifier] if ts > cutoff_time]
InWindow(timestamps, cutoff_time) ==
    SelectSeq(timestamps, LAMBDA ts : ts > cutoff_time)

\* MemoryRateLimiter._cleanup_old_requests at time t (an identifier without
\* a record and one with an empty record are the same to every reader)
_cleanup_old_requests(l, t) ==
    IF t - l._last_cleanup < CleanupInterval
    THEN l
    ELSE [l EXCEPT
            !._requests = [id \in Identifiers |->
                              InWindow(l._requests[id], t - l.window_seconds)],
            !._last_cleanup = t]

\* the dictionary key an identifier is counted under
shared_key(identifier) == "user_a"

key(identifier) == identifier

allowed_inclusive(current_count, max_requests) == current_count <= max_requests

\* allowed = current_count < self.max_requests
allowed(current_count, max_requests) == current_count < max_requests

Max(a, b) == IF a >= b THEN a ELSE b

\* MemoryRateLimiter.is_allowed(identifier) at time t: the limiter afterwards
\* and the returned (allowed, info)
is_allowed(l, identifier, t) ==
    LET cleaned == _cleanup_old_requests(l, t)
        kept == InWindow(cleaned._requests[key(identifier)], t - l.window_seconds)
        current_count == Len(kept)
    IN  [limiter |-> [cleaned EXCEPT
                         !._requests[key(identifier)] = Append(kept, t)],
         allowed |-> allowed(current_count, l.max_requests),
         remaining |-> Max(0, l.max_requests - current_count - 1),
         reset |-> t + l.window_seconds]

\* what a caller of is_allowed observes, with the time of the call
CallRecord(identifier, t, out) ==
    [identifier |-> identifier, t |-> t, allowed |-> out.allowed,
     remaining |-> out.remaining, reset |-> out.reset]

\* The variables the rate limiter leaves alone.
rateFrame == <<book, pages, runs, job, revoked, active_connections, ws,
               inbox, nstarted, nservice, faults, request, rc, fb, api, last>>

\* A caller asks the limiter about `identifier`; the run in which only this
\* identifier calls makes the same call at the same time.
IsAllowedCall(identifier) ==
    /\ Len(history) < MaxCalls
    /\ LET out == is_allowed(limiter, identifier, clock)
           alone == is_allowed(solo[identifier].limiter, identifier, clock)
       IN  /\ limiter' = out.limiter
           /\ history' = Append(history, CallRecord(identifier, clock, out))
           /\ solo' = [solo EXCEPT ![identifier] =
                         [limiter |-> alone.limiter,
                          history |-> Append(@.history,
                                       CallRecord(identifier, clock, alone))]]
    /\ UNCHANGED <<rateFrame, clock>>

\* time.sleep(seconds) between two calls: short sleeps for MaxClock seconds
\* at most, before and after one long sleep
Sleep(seconds) ==
    /\ clock % CleanupInterval < MaxClock
    /\ clock + seconds < 2 * CleanupInterval
    /\ clock' = clock + seconds
    /\ UNCHANGED <<rateFrame, limiter, history, solo>>

RateIdle ==
    /\ clock = 0
    /\ history = << >>
    /\ solo = [id \in Identifiers |-> [limiter |-> limiter, history |-> << >>]]

-----------------------------------------------------------------------------
(* routes.create_book *)

NoBook == [status |-> "none", cover_image |-> NoUrl, by |-> 0,
           title |-> "", description |-> ""]

NoResponse == [book_id |-> 0, task_id |-> "none", status |-> "none"]

\* task.id of the job queued for the book
task_id == "task-1"

\* BookService.create_book: the committed PictureBook row
BookService_create_book(req) ==
    [status |-> "draft", cover_image |-> NoUrl, by |-> 0,
     title |-> Or(req.title, "untitled"), description |-> ""]

\* the body routes.create_book returns
create_book_response ==
    [book_id |-> BookId, task_id |-> task_id, status |-> "generating"]

\* routes.create_book: POST /books
create_book ==
    /\ api = NoResponse
    /\ book' = BookService_create_book(request)
    /\ \E count \in PageCounts : job' = delay_task(count)
    /\ api' = create_book_response
    /\ UNCHANGED <<pages, runs, revoked, active_connections, ws, inbox,
                   nstarted, nservice, faults, request, rc, fb, limiter,
                   clock, history, solo, last>>

-----------------------------------------------------------------------------
(* BookService.get_book and BookService.delete_book *)

\* an id no book has
MissingId == BookId + 1
BookIds == {BookId, MissingId}

NoOp == [op |-> "none", id |-> 0, result |-> FALSE, pages_before |-> 0]

\* db.query(PictureBook).filter(PictureBook.id == book_id).first()
\* (NoBook stands for the None of a query without a row)
query_book(b, book_id) == IF book_id = BookId THEN b ELSE NoBook

\* BookService.get_book: None makes routes.get_book answer 404
get_book(b, book_id) ==
    IF query_book(b, book_id) = NoBook THEN None ELSE "BookResponse"

\* the pages of a deleted book are left in place
keep_pages(rows, book_id) == rows

\* the rows left by db.query(BookPage).filter(BookPage.book_id == book_id).delete()
\* (every row of the model belongs to BookId)
delete_pages(rows, book_id) == SelectSeq(rows, LAMBDA p : book_id # BookId)

\* BookService.delete_book(db, book_id)
delete_book(book_id) ==
    /\ IF query_book(book, book_id) = NoBook
       THEN /\ last' = [op |-> "delete_book", id |-> book_id, result |-> FALSE,
                        pages_before |-> Len(pages)]
            /\ UNCHANGED <<book, pages>>
       ELSE /\ pages' = delete_pages(pages, book_id)
            /\ book' = NoBook
            /\ last' = [op |-> "delete_book", id |-> book_id, result |-> TRUE,
                        pages_before |-> Len(pages)]
    /\ UNCHANGED <<runs, job, revoked, active_connections, ws, inbox, nstarted,
                   nservice, faults, request, rc, fb, api, limiter, clock,
                   history, solo>>

\* The application has started: no run, no connection, no client call.
StartedPipeline ==
    /\ pages = << >>
    /\ runs = [c \in Ctxs |-> IdleRun]
    /\ revoked = FALSE
    /\ active_connections = [c \in ClientIds |-> NoConn]
    /\ ws = [c \in Conns |-> [state |-> "new", client_id |-> 0]]
    /\ inbox = [c \in Conns |-> << >>]
    /\ nstarted = 0
    /\ nservice = 0
    /\ faults = 0
    /\ rc = IdleCall

\* The state of everything but the book, its job and the response of the
\* creation request when the application has started.
Started ==
    /\ request \in [title : RequestTitles]
    /\ fb = APIClientWithFallback(None)
    /\ limiter = MemoryRateLimiter(2, 2, 0)
    /\ RateIdle
    /\ last = NoOp
    /\ StartedPipeline

\* BookService.create_book has committed the book in DRAFT.
Created ==
    /\ Started
    /\ book = BookService_create_book(request)

\* routes.create_book has returned: the job is queued.
Init ==
    /\ Created
    /\ \E count \in PageCounts : job = delay_task(count)
    /\ api = create_book_response

\* The book has been created and no job is queued for it.
SvcInit ==
    /\ Created
    /\ job = NoJob
    /\ api = NoResponse

\* No creation request has been made yet.
ApiInit ==
    /\ Started
    /\ book = NoBook
    /\ job = NoJob
    /\ api = NoResponse

\* A fallback client is constructed, with or without a backup address.
FallbackInit ==
    /\ request \in [title : RequestTitles]
    /\ fb \in {APIClientWithFallback(u) : u \in BackupUrls}
    /\ limiter = MemoryRateLimiter(2, 2, 0)
    /\ RateIdle
    /\ last = NoOp
    /\ StartedPipeline
    /\ book = BookService_create_book(request)
    /\ job = NoJob
    /\ api = NoResponse

\* A rate limiter is constructed.
RateInit ==
    /\ request \in [title : RequestTitles]
    /\ fb = APIClientWithFallback(None)
    /\ limiter \in {MemoryRateLimiter(n, w, 0) : n \in MaxRequests, w \in WindowSeconds}
    /\ RateIdle
    /\ last = NoOp
    /\ StartedPipeline
    /\ book = BookService_create_book(request)
    /\ job = NoJob
    /\ api = NoResponse

-----------------------------------------------------------------------------
(* Progress channel: routes.ConnectionManager and websocket_endpoint *)

\* ConnectionManager.connect
WsConnect(c, client) ==
    /\ ws[c].state = "new"
    /\ ws' = [ws EXCEPT ![c] = [state |-> "open", client_id |-> client]]
    /\ active_connections' = [active_connections EXCEPT ![client] = c]
    /\ UNCHANGED <<book, pages, runs, job, revoked, inbox, nstarted, nservice, faults, rc, request, auxVars>>

\* The peer goes away: from now on send_json on the socket raises, and the
\* pending receive_text of websocket_endpoint will raise.
WsPeerClose(c) ==
    /\ ws[c].state = "open"
    /\ faults < MaxFaults
    /\ faults' = faults + 1
    /\ ws' = [ws EXCEPT ![c].state = "closed"]
    /\ UNCHANGED <<book, pages, runs, job, revoked, active_connections, inbox,
                   nstarted, nservice, rc, request, auxVars>>

\* ConnectionManager.disconnect
disconnect(conns, client) == [conns EXCEPT ![client] = NoConn]

\* websocket_endpoint: receive_text raised, the handler unregisters client_id.
WsEndpointExit(c) ==
    /\ ws[c].state = "closed"
    /\ ws' = [ws EXCEPT ![c].state = "gone"]
    /\ active_connections' = disconnect(active_connections, ws[c].client_id)
    /\ UNCHANGED <<book, pages, runs, job, revoked, inbox, nstarted, nservice, faults, rc, request, auxVars>>

\* the registry is indexed without the membership test: an unregistered
\* client_id raises KeyError
send_raises_unregistered(client) ==
    \/ active_connections[client] = NoConn
    \/ ws[active_connections[client]].state # "open"

\* ConnectionManager.send_progress: whether send_json raises, and the
\* inboxes after the call.
send_raises(client) ==
    /\ active_connections[client] # NoConn
    /\ ws[active_connections[client]].state # "open"

send_progress(client, data) ==
    IF active_connections[client] # NoConn /\ ws[active_connections[client]].state = "open"
    THEN [inbox EXCEPT ![active_connections[client]] = Append(@, data)]
    ELSE inbox

Event(type, page) == [type |-> type, page |-> page]

-----------------------------------------------------------------------------
(* Job queue: Celery with task_acks_late, task_track_started.  routes.     *)
(* create_book queues exactly one job for a book.                          *)

Active(c) == runs[c].pc \notin {"idle", "done"}

NewRun(kind, count) ==
    [IdleRun EXCEPT !.kind = kind, !.id = nstarted + 1,
                    !.pc = IF kind = "task" THEN "t_init" ELSE "s_begin",
                    !.page_count = count]

\* the worker starts the task without consulting its revoked set
Deliver_ignoring_revoked(w) ==
    /\ ~Active(w)
    /\ \A v \in Workers : v < w => Active(v)
    /\ job.queued
    /\ runs' = [runs EXCEPT ![w] = NewRun("task", job.page_count)]
    /\ job' = [job EXCEPT !.state = "STARTED", !.queued = FALSE]
    /\ nstarted' = nstarted + 1
    /\ UNCHANGED <<book, pages, revoked, active_connections, ws, inbox, nservice, faults, rc, request, auxVars>>

\* The first free pool process takes the queued message and starts the task
\* (state STARTED); the message stays unacknowledged until the task returns.
Deliver(w) ==
    /\ ~Active(w)
    /\ \A v \in Workers : v < w => Active(v)
    /\ job.queued
    /\ ~revoked
    /\ runs' = [runs EXCEPT ![w] = NewRun("task", job.page_count)]
    /\ job' = [job EXCEPT !.state = "STARTED", !.queued = FALSE]
    /\ nstarted' = nstarted + 1
    /\ UNCHANGED <<book, pages, revoked, active_connections, ws, inbox, nservice, faults, rc, request, auxVars>>

\* the message of a revoked job is dropped without recording the state
DeliverRevoked_unrecorded(w) ==
    /\ ~Active(w)
    /\ \A v \in Workers : v < w => Active(v)
    /\ job.queued
    /\ revoked
    /\ job' = [job EXCEPT !.queued = FALSE]
    /\ UNCHANGED <<book, pages, runs, revoked, active_connections, ws, inbox,
                   nstarted, nservice, faults, rc, request, auxVars>>

\* A worker receives the message of a job whose id is in its revoked set: the
\* message is discarded and the job marked REVOKED.
DeliverRevoked(w) ==
    /\ ~Active(w)
    /\ \A v \in Workers : v < w => Active(v)
    /\ job.queued
    /\ revoked
    /\ job' = [job EXCEPT !.state = "REVOKED", !.queued = FALSE]
    /\ UNCHANGED <<book, pages, runs, revoked, active_connections, ws, inbox,
                   nstarted, nservice, faults, rc, request, auxVars>>

\* the message was acknowledged when the task started (early ack): it is
\* gone with the worker
WorkerLost_acked(w) ==
    /\ Active(w)
    /\ faults < MaxFaults
    /\ faults' = faults + 1
    /\ runs' = [runs EXCEPT ![w] = IdleRun]
    /\ UNCHANGED <<book, pages, job, revoked, active_connections, ws, inbox, nstarted, nservice, rc, request, auxVars>>

\* The worker executing the job is lost before the task returned: the
\* unacknowledged message is delivered again (task_acks_late).
WorkerLost(w) ==
    /\ Active(w)
    /\ faults < MaxFaults
    /\ faults' = faults + 1
    /\ runs' = [runs EXCEPT ![w] = IdleRun]
    /\ job' = [job EXCEPT !.queued = TRUE]
    /\ UNCHANGED <<book, pages, revoked, active_connections, ws, inbox, nstarted, nservice, rc, request, auxVars>>

\* The broker hands the unacknowledged message out again while the worker
\* that holds it is still executing the task (its connection dropped, or the
\* transport's visibility timeout passed).
Redelivered ==
    /\ \E w \in Workers : Active(w)
    /\ ~job.queued
    /\ faults < MaxFaults
    /\ faults' = faults + 1
    /\ job' = [job EXCEPT !.queued = TRUE]
    /\ UNCHANGED <<book, pages, runs, revoked, active_connections, ws, inbox, nstarted, nservice, rc, request, auxVars>>

\* task_time_limit: the pool process running the task is killed, the job is
\* marked FAILURE and acknowledged.
HardTimeLimit(w) ==
    /\ Active(w)
    /\ faults < MaxFaults
    /\ faults' = faults + 1
    /\ runs' = [runs EXCEPT ![w] = IdleRun]
    /\ job' = [job EXCEPT !.state = "FAILURE"]
    /\ UNCHANGED <<book, pages, revoked, active_connections, ws, inbox, nstarted, nservice, rc, request, auxVars>>

\* routes.cancel_task: celery_app.control.revoke(task_id, terminate=True).
\* The id enters the workers' revoked set; a process executing the job is
\* terminated and the job marked REVOKED.
cancel_task ==
    /\ ~revoked
    /\ revoked' = TRUE
    /\ IF \E w \in Workers : Active(w)
       THEN /\ runs' = [c \in Ctxs |-> IF c \in Workers THEN IdleRun ELSE runs[c]]
            /\ job' = [job EXCEPT !.state = "REVOKED"]
       ELSE UNCHANGED <<runs, job, request, auxVars>>
    /\ UNCHANGED <<book, pages, active_connections, ws, inbox, nstarted, nservice, faults, rc, request, auxVars>>

\* Task.update_state(state='PROGRESS', meta={'progress': p, ...})
update_state(p) == [job EXCEPT !.state = "PROGRESS", !.progress = p]

-----------------------------------------------------------------------------
(* book_tasks.generate_book_content_task, one action per step between two   *)
(* externally visible effects (a commit, an update_state, a remote call)   *)

\* BookPage(book_id, page_number=page.page_number,
\*          image_url=image_urls[i] if i < len(image_urls) else None)
BookPage(r, k) ==
    [page_number |-> r.story[k],
     image_url |-> IF k <= Len(r.image_urls) THEN r.image_urls[k] ELSE NoUrl,
     run |-> r.id]

\* the cover is the first url of the list that is not None
cover_first_success(image_urls, old) ==
    LET S == {k \in 1..Len(image_urls) : image_urls[k] # NoUrl}
    IN  IF S = {} THEN old
        ELSE image_urls[CHOOSE k \in S : \A j \in S : k <= j]

\* `if image_urls and image_urls[0]: book.cover_image = image_urls[0]`
cover_of(image_urls, old) ==
    IF image_urls # << >> /\ image_urls[1] # NoUrl THEN image_urls[1] ELSE old

\* 30 + int((current / total) * 60)
task_image_progress(current, total) == 30 + ((current * 60) \div total)

\* lines 59-66: update_state(PROGRESS, progress 0)
TaskInit(w) ==
    /\ runs[w].pc = "t_init"
    /\ job' = update_state(0)
    /\ runs' = [runs EXCEPT ![w].pc = "t_begin"]
    /\ UNCHANGED <<book, pages, revoked, active_connections, ws, inbox, nstarted, nservice, faults, rc, request, auxVars>>

\* lines 69-80: the book is read, status = GENERATING, commit
TaskBegin(w) ==
    /\ runs[w].pc = "t_begin"
    /\ book' = [book EXCEPT !.status = "generating", !.by = runs[w].id]
    /\ runs' = [runs EXCEPT ![w].pc = "t_progress_story"]
    /\ UNCHANGED <<pages, job, revoked, active_connections, ws, inbox, nstarted, nservice, faults, rc, request, auxVars>>

\* lines 86-93: update_state(PROGRESS, progress 10)
TaskProgressStory(w) ==
    /\ runs[w].pc = "t_progress_story"
    /\ job' = update_state(10)
    /\ runs' = [runs EXCEPT ![w].pc = "t_story"]
    /\ UNCHANGED <<book, pages, revoked, active_connections, ws, inbox, nstarted, nservice, faults, rc, request, auxVars>>

\* lines 105-113: generate_story returned; title and description committed
TaskStoryOk(w, script, shape, meta) ==
    /\ runs[w].pc = "t_story"
    /\ wrapper("generate_story", script).returned
    /\ OneDefect(runs[w], shape, meta)
    /\ Expected(runs[w], shape, meta) \/ faults < MaxFaults
    /\ faults' = IF Expected(runs[w], shape, meta) THEN faults ELSE faults + 1
    /\ book' = [book EXCEPT !.title = Or(request.title, meta.title),
                            !.description = meta.description]
    /\ runs' = [runs EXCEPT ![w].pc = "t_progress_images", ![w].story = shape,
                            ![w].story_state = "ok"]
    /\ UNCHANGED <<pages, job, revoked, active_connections, ws, inbox, nstarted, nservice, rc, request, auxVars>>

\* lines 115-119: generate_story raised; status = FAILED, commit, re-raise
TaskStoryFailed(w, script) ==
    /\ runs[w].pc = "t_story"
    /\ ~wrapper("generate_story", script).returned
    /\ faults < MaxFaults
    /\ faults' = faults + 1
    /\ book' = [book EXCEPT !.status = "failed", !.by = runs[w].id]
    /\ runs' = [runs EXCEPT ![w].pc = "t_except", ![w].story_state = "failed"]
    /\ UNCHANGED <<pages, job, revoked, active_connections, ws, inbox, nstarted, nservice, rc, request, auxVars>>

\* lines 122-129: update_state(PROGRESS, progress 30)
TaskProgressImages(w) ==
    /\ runs[w].pc = "t_progress_images"
    /\ job' = update_state(30)
    /\ runs' = [runs EXCEPT ![w].pc = "t_images", ![w].i = 0]
    /\ UNCHANGED <<book, pages, revoked, active_connections, ws, inbox, nstarted, nservice, faults, rc, request, auxVars>>

\* generate_book_images, one iteration whose generate_image returned: the
\* url is appended and the task's image_progress callback updates the job
TaskImageOk(w, script) ==
    /\ runs[w].pc = "t_images"
    /\ runs[w].i < Len(runs[w].story)
    /\ wrapper("generate_image", script).returned
    /\ runs' = [runs EXCEPT ![w].i = @ + 1,
                            ![w].image_urls = Append(@, Url(runs[w].id, runs[w].i + 1)),
                            ![w].img_ok = @ \cup {runs[w].i + 1}]
    /\ job' = update_state(task_image_progress(runs[w].i + 1, Len(runs[w].story)))
    /\ UNCHANGED <<book, pages, revoked, active_connections, ws, inbox, nstarted, nservice, faults, rc, request, auxVars>>

\* generate_book_images, one iteration whose generate_image raised after its
\* retries: None is appended
TaskImageFailed(w, script) ==
    /\ runs[w].pc = "t_images"
    /\ runs[w].i < Len(runs[w].story)
    /\ ~wrapper("generate_image", script).returned
    /\ faults < MaxFaults
    /\ faults' = faults + 1
    /\ runs' = [runs EXCEPT ![w].i = @ + 1, ![w].image_urls = Append(@, NoUrl)]
    /\ UNCHANGED <<book, pages, job, revoked, active_connections, ws, inbox, nstarted, nservice, rc, request, auxVars>>

\* lines 161-168: update_state(PROGRESS, progress 90)
TaskProgressSaving(w) ==
    /\ runs[w].pc = "t_images"
    /\ runs[w].i = Len(runs[w].story)
    /\ job' = update_state(90)
    /\ runs' = [runs EXCEPT ![w].pc = "t_save", ![w].i = 0]
    /\ UNCHANGED <<book, pages, revoked, active_connections, ws, inbox, nstarted, nservice, faults, rc, request, auxVars>>

\* lines 171-184: the next pages are added to the session up to the one
\* whose index makes (i + 1) % 5 == 0, and committed
TaskSaveBatch(w) ==
    /\ runs[w].pc = "t_save"
    /\ Len(runs[w].story) - runs[w].i >= CommitEvery
    /\ pages' = pages \o [k \in 1..CommitEvery |-> BookPage(runs[w], runs[w].i + k)]
    /\ runs' = [runs EXCEPT ![w].i = @ + CommitEvery]
    /\ UNCHANGED <<book, job, revoked, active_connections, ws, inbox, nstarted, nservice, faults, rc, request, auxVars>>

\* lines 171-194: the remaining pages are added, the cover and the status
\* COMPLETED are set, and all of it is committed at once
TaskSaveRest(w) ==
    /\ runs[w].pc = "t_save"
    /\ Len(runs[w].story) - runs[w].i < CommitEvery
    /\ pages' = pages \o [k \in 1..(Len(runs[w].story) - runs[w].i) |->
                             BookPage(runs[w], runs[w].i + k)]
    /\ book' = [book EXCEPT !.status = "completed",
                            !.cover_image = cover_of(runs[w].image_urls, @),
                            !.by = runs[w].id]
    /\ runs' = [runs EXCEPT ![w].pc = "t_return", ![w].i = Len(runs[w].story),
                            ![w].result = "SUCCESS"]
    /\ UNCHANGED <<job, revoked, active_connections, ws, inbox, nstarted, nservice, faults, rc, request, auxVars>>

\* the outer handler marks the book FAILED and has the job retried
\* (self.retry): the message goes back to the queue
TaskExcept_retry(w) ==
    /\ runs[w].pc = "t_except"
    /\ book' = [book EXCEPT !.status = "failed", !.by = runs[w].id]
    /\ job' = [job EXCEPT !.queued = TRUE]
    /\ runs' = [runs EXCEPT ![w].pc = "t_return", ![w].result = "FAILED"]
    /\ UNCHANGED <<pages, revoked, active_connections, ws, inbox, nstarted, nservice, faults, rc, request, auxVars>>

\* lines 213-223: the outer handler reads the book again, status = FAILED, commit
TaskExcept(w) ==
    /\ runs[w].pc = "t_except"
    /\ book' = [book EXCEPT !.status = "failed", !.by = runs[w].id]
    /\ runs' = [runs EXCEPT ![w].pc = "t_return", ![w].result = "FAILED"]
    /\ UNCHANGED <<pages, job, revoked, active_connections, ws, inbox, nstarted, nservice, faults, rc, request, auxVars>>

\* lines 205-211 and 226-230: the task returns a dict, so Celery records
\* SUCCESS with that dict as the result, and acknowledges the message
TaskReturn(w) ==
    /\ runs[w].pc = "t_return"
    /\ job' = [job EXCEPT !.state = "SUCCESS", !.result = runs[w].result]
    /\ runs' = [runs EXCEPT ![w] = IdleRun]
    /\ UNCHANGED <<book, pages, revoked, active_connections, ws, inbox, nstarted, nservice, faults, rc, request, auxVars>>

-----------------------------------------------------------------------------
(* BookService.generate_book_content called with ws_manager = manager and   *)
(* no progress_callback, run by the API process                            *)

Svc == ApiProcess

\* The run's record after a call of ws_manager.send_progress(str(book_id), ev):
\* the call is logged, and the run continues at `ok` or, when send_json
\* raised, at `exc`.
Published(r, ev, ok, exc) ==
    [r EXCEPT !.published = Append(@, ev),
              !.pc = IF send_raises(BookId) THEN exc ELSE ok]

StartService(count) ==
    /\ nservice < MaxServiceRuns
    /\ ~Active(Svc)
    /\ runs' = [runs EXCEPT ![Svc] = NewRun("service", count)]
    /\ nstarted' = nstarted + 1
    /\ nservice' = nservice + 1
    /\ UNCHANGED <<book, pages, job, revoked, active_connections, ws, inbox, faults, rc, request, auxVars>>

\* lines 51-58: the book is read, status = GENERATING, commit
SvcBegin ==
    /\ runs[Svc].pc = "s_begin"
    /\ book' = [book EXCEPT !.status = "generating", !.by = runs[Svc].id]
    /\ runs' = [runs EXCEPT ![Svc].pc = "s_notify_start"]
    /\ UNCHANGED <<pages, job, revoked, active_connections, ws, inbox, nstarted, nservice, faults, rc, request, auxVars>>

\* lines 61-69: status_update
SvcNotifyStart ==
    /\ runs[Svc].pc = "s_notify_start"
    /\ inbox' = send_progress(BookId, Event("status_update", 0))
    /\ runs' = [runs EXCEPT ![Svc] =
                  Published(@, Event("status_update", 0), "s_story", "s_except")]
    /\ UNCHANGED <<book, pages, job, revoked, active_connections, ws, nstarted, nservice, faults, rc, request, auxVars>>

\* lines 83-88: generate_story returned; title and description committed
SvcStoryOk(script, shape, meta) ==
    /\ runs[Svc].pc = "s_story"
    /\ wrapper("generate_story", script).returned
    /\ OneDefect(runs[Svc], shape, meta)
    /\ Expected(runs[Svc], shape, meta) \/ faults < MaxFaults
    /\ faults' = IF Expected(runs[Svc], shape, meta) THEN faults ELSE faults + 1
    /\ book' = [book EXCEPT !.title = Or(request.title, meta.title),
                            !.description = meta.description]
    /\ runs' = [runs EXCEPT ![Svc].story = shape, ![Svc].i = 0,
                            ![Svc].story_state = "ok",
                            ![Svc].pc = IF shape = << >> THEN "s_complete" ELSE "s_images"]
    /\ UNCHANGED <<pages, job, revoked, active_connections, ws, inbox, nstarted, nservice, rc, request, auxVars>>

\* line 83: generate_story raised after its retries
SvcStoryFailed(script) ==
    /\ runs[Svc].pc = "s_story"
    /\ ~wrapper("generate_story", script).returned
    /\ faults < MaxFaults
    /\ faults' = faults + 1
    /\ runs' = [runs EXCEPT ![Svc].pc = "s_except", ![Svc].story_state = "failed"]
    /\ UNCHANGED <<book, pages, job, revoked, active_connections, ws, inbox, nstarted, nservice, rc, request, auxVars>>

\* generate_book_images, one iteration whose generate_image returned: the
\* url is appended, then the image_progress callback publishes; when that
\* raises, the handler of the iteration appends None as well
SvcImageOk(script) ==
    LET r == runs[Svc]
        k == r.i + 1
        ev == Event("image_progress", k)
        urls == IF send_raises(BookId)
                THEN Append(Append(r.image_urls, Url(r.id, k)), NoUrl)
                ELSE Append(r.image_urls, Url(r.id, k))
    IN  /\ r.pc = "s_images"
        /\ wrapper("generate_image", script).returned
        /\ inbox' = send_progress(BookId, ev)
        /\ runs' = [runs EXCEPT ![Svc] =
                      [r EXCEPT !.i = IF k = Len(r.story) THEN 0 ELSE k,
                                !.image_urls = urls,
                                !.img_ok = @ \cup {k},
                                !.published = Append(@, ev),
                                !.pc = IF k = Len(r.story) THEN "s_save" ELSE "s_images"]]
        /\ UNCHANGED <<book, pages, job, revoked, active_connections, ws, nstarted, nservice, faults, rc, request, auxVars>>

\* generate_book_images, one iteration whose generate_image raised after its
\* retries: None is appended, the callback is not called
SvcImageFailed(script) ==
    LET r == runs[Svc]
        k == r.i + 1
    IN  /\ r.pc = "s_images"
        /\ ~wrapper("generate_image", script).returned
        /\ faults < MaxFaults
        /\ faults' = faults + 1
        /\ runs' = [runs EXCEPT ![Svc] =
                      [r EXCEPT !.i = IF k = Len(r.story) THEN 0 ELSE k,
                                !.image_urls = Append(@, NoUrl),
                                !.pc = IF k = Len(r.story) THEN "s_save" ELSE "s_images"]]
        /\ UNCHANGED <<book, pages, job, revoked, active_connections, ws, inbox, nstarted, nservice, rc, request, auxVars>>

\* `i < len(image_urls) and image_urls[i]` for the page at position k
has_image(r, k) == k <= Len(r.image_urls) /\ r.image_urls[k] # NoUrl

\* lines 117-129: one page is added and committed
SvcSavePage ==
    LET r == runs[Svc]
        k == r.i + 1
    IN  /\ r.pc = "s_save"
        /\ pages' = Append(pages, BookPage(r, k))
        /\ runs' = [runs EXCEPT ![Svc] =
                      [r EXCEPT !.i = k,
                                !.pc = IF has_image(r, k) THEN "s_notify_page"
                                       ELSE IF k = Len(r.story) THEN "s_complete"
                                       ELSE "s_save"]]
        /\ UNCHANGED <<book, job, revoked, active_connections, ws, inbox, nstarted, nservice, faults, rc, request, auxVars>>

\* lines 130-136: page_completed for the page just committed
SvcNotifyPage ==
    LET r == runs[Svc]
        ev == Event("page_completed", r.story[r.i])
    IN  /\ r.pc = "s_notify_page"
        /\ inbox' = send_progress(BookId, ev)
        /\ runs' = [runs EXCEPT ![Svc] =
                      Published(r, ev, IF r.i = Len(r.story) THEN "s_complete"
                                       ELSE "s_save", "s_except")]
        /\ UNCHANGED <<book, pages, job, revoked, active_connections, ws, nstarted, nservice, faults, rc, request, auxVars>>

\* the completion is announced first and committed afterwards
SvcComplete_notify_first ==
    /\ runs[Svc].pc = "s_complete"
    /\ runs' = [runs EXCEPT ![Svc].pc = "s_notify_done"]
    /\ UNCHANGED <<book, pages, job, revoked, active_connections, ws, inbox, nstarted, nservice, faults, rc, request, auxVars>>

\* lines 139-144: cover, status = COMPLETED, commit
SvcComplete ==
    /\ runs[Svc].pc = "s_complete"
    /\ book' = [book EXCEPT !.status = "completed",
                            !.cover_image = cover_of(runs[Svc].image_urls, @),
                            !.by = runs[Svc].id]
    /\ runs' = [runs EXCEPT ![Svc].pc = "s_notify_done"]
    /\ UNCHANGED <<pages, job, revoked, active_connections, ws, inbox, nstarted, nservice, faults, rc, request, auxVars>>

\* lines 147-154: generation_completed, return book
SvcNotifyDone ==
    /\ runs[Svc].pc = "s_notify_done"
    /\ inbox' = send_progress(BookId, Event("generation_completed", 0))
    /\ runs' = [runs EXCEPT ![Svc] =
                  [Published(@, Event("generation_completed", 0), "done", "s_except")
                     EXCEPT !.result = IF send_raises(BookId) THEN "none" ELSE "returned"]]
    /\ UNCHANGED <<book, pages, job, revoked, active_connections, ws, nstarted, nservice, faults, rc, request, auxVars>>

\* lines 156-158: status = FAILED, commit
SvcExcept ==
    /\ runs[Svc].pc = "s_except"
    /\ book' = [book EXCEPT !.status = "failed", !.by = runs[Svc].id]
    /\ runs' = [runs EXCEPT ![Svc].pc = "s_notify_failed"]
    /\ UNCHANGED <<pages, job, revoked, active_connections, ws, inbox, nstarted, nservice, faults, rc, request, auxVars>>

\* lines 161-169: generation_failed, then the exception is raised
SvcNotifyFailed ==
    /\ runs[Svc].pc = "s_notify_failed"
    /\ inbox' = send_progress(BookId, Event("generation_failed", 0))
    /\ runs' = [runs EXCEPT ![Svc] =
                  [Published(@, Event("generation_failed", 0), "done", "done")
                     EXCEPT !.result = "raised"]]
    /\ UNCHANGED <<book, pages, job, revoked, active_connections, ws, nstarted, nservice, faults, rc, request, auxVars>>

-----------------------------------------------------------------------------
(* Specifications *)

\* the one connection a client opens to follow its book
Subscribers == {"ws1"}

ChannelSteps(conns) ==
    \/ \E c \in conns, client \in ClientIds : WsConnect(c, client)
    \/ \E c \in conns : WsPeerClose(c)
    \/ \E c \in conns : WsEndpointExit(c)

ChannelNext == ChannelSteps(Subscribers)

QueueNext ==
    \/ \E w \in Workers : Deliver(w)
    \/ \E w \in Workers : DeliverRevoked(w)
    \/ \E w \in Workers : WorkerLost(w)
    \/ Redelivered
    \/ \E w \in Workers : HardTimeLimit(w)
    \/ cancel_task

TaskNext ==
    \E w \in Workers :
        \/ TaskInit(w)
        \/ TaskBegin(w)
        \/ TaskProgressStory(w)
        \/ \E script \in PipelineScripts, shape \in StoryShapes(runs[w].page_count),
              meta \in StoryMeta :
              TaskStoryOk(w, script, shape, meta)
        \/ \E script \in PipelineScripts : TaskStoryFailed(w, script)
        \/ TaskProgressImages(w)
        \/ \E script \in PipelineScripts : TaskImageOk(w, script)
        \/ \E script \in PipelineScripts : TaskImageFailed(w, script)
        \/ TaskProgressSaving(w)
        \/ TaskSaveBatch(w)
        \/ TaskSaveRest(w)
        \/ TaskExcept(w)
        \/ TaskReturn(w)

ServiceNext ==
    \/ \E count \in PageCounts : StartService(count)
    \/ SvcBegin
    \/ SvcNotifyStart
    \/ \E script \in PipelineScripts, shape \in StoryShapes(runs[Svc].page_count),
          meta \in StoryMeta :
          SvcStoryOk(script, shape, meta)
    \/ \E script \in PipelineScripts : SvcStoryFailed(script)
    \/ \E script \in PipelineScripts : SvcImageOk(script)
    \/ \E script \in PipelineScripts : SvcImageFailed(script)
    \/ SvcSavePage
    \/ SvcNotifyPage
    \/ SvcComplete
    \/ SvcNotifyDone
    \/ SvcExcept
    \/ SvcNotifyFailed

\* The deployment routes.create_book sets up: the book is generated by the
\* Celery task on the worker pool.
Next == QueueNext \/ TaskNext

Spec == Init /\ [][Next]_vars

\* Workers are scheduled: a free pool process takes a queued message, and a
\* running task takes its next step (every remote call returns or times out).
Fairness ==
    /\ WF_vars(\E w \in Workers : Deliver(w))
    /\ WF_vars(\E w \in Workers : DeliverRevoked(w))
    /\ WF_vars(TaskNext)

LiveSpec == Init /\ [][Next]_vars /\ Fairness

\* The book is generated by BookService.generate_book_content in the API
\* process, which holds the connection registry.
SvcNext == ChannelNext \/ ServiceNext

SvcSpec == SvcInit /\ [][SvcNext]_vars

\* The same, with a second connection that may register the client_id too.
RegistryNext == ChannelSteps(Conns) \/ ServiceNext

RegistrySpec == SvcInit /\ [][RegistryNext]_vars

RetryNext ==
    \/ ClientCall
    \/ ClientReturn

RetrySpec == SvcInit /\ [][RetryNext]_vars

\* The deployment from the creation request on.
ApiNext ==
    \/ create_book
    \/ api # NoResponse /\ Next

ApiSpec == ApiInit /\ [][ApiNext]_vars

\* The Content Client's calls next to a fallback client whose methods any
\* caller may invoke.
FallbackNext ==
    \/ EndpointCall
    \/ ClientReturn
    \/ switch_to_backup
    \/ switch_to_primary

\* Calls are made again and again, and each returns.
FallbackSpec ==
    /\ FallbackInit
    /\ [][FallbackNext]_vars
    /\ WF_vars(EndpointCall)
    /\ WF_vars(ClientReturn)

RateNext ==
    \/ \E identifier \in Identifiers : IsAllowedCall(identifier)
    \/ \E seconds \in {1, CleanupInterval} : Sleep(seconds)

RateSpec == RateInit /\ [][RateNext]_vars

\* The base class of regenerate_page_image_task: its decorator names none,
\* so it is celery's Task and not DatabaseTask.
regenerate_task_base == "Task"

\* whether `self.db` exists on a task of the given base class
has_db(base) == base = "DatabaseTask"

\* a page number the book has and one it has not
PageNumbers == {1, PageCount + 1}

\* result.image_url of the new image for the row at position k
RegeneratedUrl(k) == [run |-> 0 - 1, pos |-> k]

\* positions of the rows with the page number (the query takes the first)
PagePositions(page_number) ==
    {k \in 1..Len(pages) : pages[k].page_number = page_number}

\* regenerate_page_image_task(book_id, page_number, style), the image service
\* answering with `script`
regenerate_page_image_task(book_id, page_number, script) ==
    LET found == /\ has_db(regenerate_task_base)
                 /\ query_book(book, book_id) # NoBook
                 /\ PagePositions(page_number) # {}
        image_ok == wrapper("generate_image", script).returned
        k == CHOOSE k \in PagePositions(page_number) :
                 \A j \in PagePositions(page_number) : k <= j
    IN  /\ pages' = IF found /\ image_ok
                    THEN [pages EXCEPT ![k].image_url = RegeneratedUrl(k)]
                    ELSE pages
        /\ last' = [op |-> "regenerate_page_image", id |-> book_id,
                    page_number |-> page_number, image_ok |-> image_ok,
                    status |-> IF found /\ image_ok THEN "SUCCESS" ELSE "FAILED"]
        /\ UNCHANGED <<book, runs, job, revoked, active_connections, ws, inbox,
                       nstarted, nservice, faults, request, rc, fb, api,
                       limiter, clock, history, solo>>

\* The deployment with images regenerated on request.
RegenNext ==
    \/ Next
    \/ \E book_id \in BookIds, page_number \in PageNumbers,
          script \in PipelineScripts :
          regenerate_page_image_task(book_id, page_number, script)

RegenSpec == Init /\ [][RegenNext]_vars

\* RATE_LIMIT_CONFIGS["strict"]: (max_requests, window_seconds)
strict == <<10, 60>>

\* request.client.host of the one client
ClientHost == "user_a"

\* The positional arguments FastAPI calls the endpoint with: it passes the
\* parameters of create_book (request: BookCreateRequest, db) by keyword.
EndpointArgs == {<< >>}

\* `for arg in args: if isinstance(arg, Request): request = arg; break`
find_request(args) ==
    IF \E k \in 1..Len(args) : args[k] = "Request" THEN "Request" ELSE None

\* whether rate_limit.wrapper consults its limiter for a call with `args`
limited(args) == find_request(args) # None

\* POST /books: rate_limit.wrapper around routes.create_book.  The books
\* created and the jobs queued are counted in `last`.
PostBooks(args) ==
    /\ Len(history) < MaxPosts
    /\ LET out == is_allowed(limiter, ClientHost, clock)
           rejected == limited(args) /\ ~out.allowed
       IN  /\ limiter' = IF limited(args) THEN out.limiter ELSE limiter
           /\ history' = Append(history,
                 [identifier |-> ClientHost, t |-> clock,
                  status_code |-> IF rejected THEN 429 ELSE 200])
           /\ last' = IF rejected THEN last
                      ELSE [last EXCEPT !.books = @ + 1, !.jobs = @ + 1]
    /\ UNCHANGED <<book, pages, runs, job, revoked, active_connections, ws,
                   inbox, nstarted, nservice, faults, request, rc, fb, api,
                   clock, solo>>

\* The application has started with the limiter of the create-book endpoint.
LimitInit ==
    /\ request \in [title : RequestTitles]
    /\ fb = APIClientWithFallback(None)
    /\ limiter = MemoryRateLimiter(strict[1], strict[2], 0)
    /\ RateIdle
    /\ last = [op |-> "create_book", books |-> 0, jobs |-> 0]
    /\ StartedPipeline
    /\ book = NoBook
    /\ job = NoJob
    /\ api = NoResponse

LimitNext ==
    \/ \E args \in EndpointArgs : PostBooks(args)
    \/ \E seconds \in {1, CleanupInterval} : Sleep(seconds)

LimitSpec == LimitInit /\ [][LimitNext]_vars

\* A step of the task that neither reads nor updates the book row: the
\* update_state calls, the image loop, a commit of pages alone, the return.
TaskStepWithoutBook(w) ==
    \/ TaskInit(w)
    \/ TaskProgressStory(w)
    \/ TaskProgressImages(w)
    \/ \E script \in PipelineScripts : TaskImageOk(w, script)
    \/ \E script \in PipelineScripts : TaskImageFailed(w, script)
    \/ TaskProgressSaving(w)
    \/ TaskSaveBatch(w)
    \/ TaskReturn(w)

\* A step of the task that reads or updates the book row, taken after the
\* row was deleted: line 70 finds no book, or the commit of an UPDATE that
\* matches no row raises and the outer handler (lines 213-223) finds no
\* book; in each case the task returns the FAILED dict and writes nothing.
TaskBookGone(w) ==
    /\ book = NoBook
    /\ runs[w].pc \in {"t_begin", "t_story", "t_save", "t_except"}
    /\ runs[w].pc = "t_save" => Len(runs[w].story) - runs[w].i < CommitEvery
    /\ runs' = [runs EXCEPT ![w].pc = "t_return", ![w].result = "FAILED"]
    /\ UNCHANGED <<book, pages, job, revoked, active_connections, ws, inbox, nstarted, nservice, faults, rc, request, auxVars>>

\* The deployment with books deleted on request while their job is queued,
\* running or over.
DeleteNext ==
    \/ \E book_id \in BookIds : delete_book(book_id)
    \/ QueueNext
    \/ book # NoBook /\ TaskNext
    \/ book = NoBook /\ \E w \in Workers : TaskStepWithoutBook(w)
    \/ \E w \in Workers : TaskBookGone(w)

DeleteSpec == Init /\ [][DeleteNext]_vars

-----------------------------------------------------------------------------
(* Properties *)

Rows == {pages[k] : k \in 1..Len(pages)}

\* the rows a run has committed, in the order it committed them
RunRows(id) == SelectSeq(pages, LAMBDA row : row.run = id)

Terminal == {"SUCCESS", "FAILURE", "REVOKED"}

\* a run that has finished its work on the book
Finished(r) ==
    \/ r.kind = "service" /\ r.pc = "done"
    \/ r.kind = "task" /\ r.pc = "t_return"

StatusSteps == { <<"draft", "generating">>, <<"generating", "completed">>,
                 <<"generating", "failed">> }

\* C1: every change of Book.status is Draft -> Generating, Generating ->
\* Completed or Generating -> Failed; Completed and Failed are never left.
C1_StatusOnlyAdvances ==
    [][book'.status # book.status => <<book.status, book'.status>> \in StatusSteps]_vars

\* C2: a book whose status is Failed has no Page row persisted by the run
\* that set it to Failed.
C2_FailedHasNoPages ==
    book.status = "failed" => \A row \in Rows : row.run # book.by

\* C3: when the job is in a terminal state (SUCCESS, FAILURE, REVOKED) the
\* book's status is not Generating.
C3_TerminalJobNotGenerating ==
    job.state \in Terminal => book.status # "generating"

\* C4: the repository holds at most one Page row for each page_number of
\* the book.
C4_OneRowPerPageNumber ==
    \A a, b \in 1..Len(pages) : a # b => pages[a].page_number # pages[b].page_number

\* C5: the page numbers of a Completed book are exactly 1..page_count, each
\* occurring once.
C5_CompletedPagesDense ==
    book.status = "completed" =>
        /\ Len(pages) = PageCount
        /\ {row.page_number : row \in Rows} = 1..PageCount

\* C6: a run whose story generation succeeded persists every page of the
\* story, with image_url null exactly for the pages whose image generation
\* failed, and leaves the book Completed.
C6_Degradation ==
    \A c \in Ctxs :
        LET r == runs[c]
            rows == RunRows(r.id)
        IN  Finished(r) /\ r.story_state = "ok" =>
               /\ r.result \in {"SUCCESS", "returned"}
               /\ Len(rows) = Len(r.story)
               /\ \A k \in 1..Len(rows) :
                     /\ rows[k].page_number = r.story[k]
                     /\ (rows[k].image_url = NoUrl) <=> (k \notin r.img_ok)
                     /\ k \in r.img_ok => rows[k].image_url = Url(r.id, k)

\* C7: a run whose story generation failed terminally has set the book to
\* Failed, has published generation_failed, has written no Page and has
\* called generate_image for no page.
C7_StoryFailureStops ==
    \A c \in Ctxs :
        LET r == runs[c]
        IN  Finished(r) /\ r.story_state = "failed" =>
               /\ book.by = r.id => book.status = "failed"
               /\ \E k \in 1..Len(r.published) :
                     r.published[k].type = "generation_failed"
               /\ RunRows(r.id) = << >>
               /\ r.image_urls = << >> /\ r.img_ok = {}

-----------------------------------------------------------------------------
(* Properties of the Retrying Content Client, under RetrySpec *)

Retryable == {"timeout", "connection", "rate_limit", "server"}

RECURSIVE Pow(_, _)
Pow(b, n) == IF n = 0 THEN 1 ELSE b * Pow(b, n - 1)

\* the remote service fails the first k invocations and answers the next one
FailsThenSucceeds(fn, script, k) ==
    /\ \A j \in 1..k : ~func(fn, script[j]).ok
    /\ func(fn, script[k + 1]).ok

\* C8: a call whose remote service answers with an authentication error is
\* attempted exactly once, without retry or backoff delay, and the error is
\* surfaced to the caller.
C8_AuthNeverRetried ==
    rc.busy /\ rc.script[1] = "auth" =>
        /\ rc.out.attempts = 1
        /\ rc.out.sleeps = << >>
        /\ ~rc.out.returned
        /\ rc.out.raised.kind = "auth"

\* C9 as stated: a call whose every attempt fails with a retryable error
\* invokes the remote service at most max_retries times, then gives up.
C9_AtMostMaxRetriesAttempts ==
    rc.busy /\ (\A k \in 1..ScriptLen : rc.script[k] \in Retryable) =>
        /\ rc.out.attempts <= max_retries
        /\ ~rc.out.returned

\* C9 amended: a call whose every attempt fails with a retryable error
\* invokes the remote service at most max_retries + 1 times (the first
\* attempt and max_retries retries), then gives up.
C9_AtMostMaxRetriesPlusOneAttempts ==
    rc.busy /\ (\A k \in 1..ScriptLen : rc.script[k] \in Retryable) =>
        /\ rc.out.attempts <= max_retries + 1
        /\ ~rc.out.returned

C9_Witness ==
    /\ rc.busy
    /\ \A k \in 1..ScriptLen : rc.script[k] \in Retryable
    /\ rc.out.attempts = max_retries + 1
    /\ ~rc.out.returned

\* C10: a call that fails on its first k attempts and then succeeds is
\* attempted exactly k + 1 times, sleeps delay * backoff_factor^j seconds
\* before retry j + 1 (j = 0..k-1) and returns the result; for k = 2 that is
\* 3 attempts and 6 seconds of waiting.
C10_RetryLaw ==
    \A k \in 0..max_retries :
        rc.busy /\ FailsThenSucceeds(rc.fn, rc.script, k) =>
            /\ rc.out.returned
            /\ rc.out.attempts = k + 1
            /\ rc.out.sleeps = [j \in 1..k |-> delay * Pow(backoff_factor, j - 1)]
            /\ k = 2 => SumSeq(rc.out.sleeps) = 6

C10_Witness ==
    /\ rc.busy
    /\ FailsThenSucceeds(rc.fn, rc.script, 2)
    /\ rc.out.returned
    /\ rc.out.attempts = 3
    /\ SumSeq(rc.out.sleeps) = 6

\* every invocation the call made failed
AllAttemptsFailed ==
    /\ rc.busy
    /\ \A k \in 1..rc.out.attempts : ~func(rc.fn, rc.out.calls[k]).ok

\* C11: when all attempts of a Content Client call fail, the call does not
\* return a value and the error raised to the caller is the error of the
\* last attempt made, not that of an earlier attempt.
C11_LastErrorPropagates ==
    AllAttemptsFailed =>
        /\ ~rc.out.returned
        /\ rc.out.raised.attempt = rc.out.attempts
        /\ rc.out.raised.kind = rc.script[rc.out.attempts]
        /\ rc.out.raised.status_code =
               func(rc.fn, rc.script[rc.out.attempts]).status_code

C11_Witness ==
    /\ AllAttemptsFailed
    /\ rc.fn = "generate_story"
    /\ rc.script[1] = "auth"
    /\ rc.out.attempts > 1
    /\ rc.out.raised.kind = "rate_limit"
    /\ rc.out.raised.status_code = 429

\* C12: when a text-generation response cannot be parsed, exactly one repair
\* of that response is attempted, and if the repaired text does not parse
\* either, generate_story fails with the malformed-response error without
\* another request to the remote text service.
C12_MalformedIsTerminal ==
    rc.busy /\ rc.fn = "generate_story" /\ rc.script[1] = "malformed" =>
        /\ generate_story(rc.out.calls[1]).repairs = 1
        /\ rc.out.attempts = 1
        /\ ~rc.out.returned
        /\ rc.out.raised.kind = "malformed"

-----------------------------------------------------------------------------
(* Properties of the orchestrator and the job queue, continued *)

\* positions of the rows of a run whose image_url is not null
WithImage(rows) == {k \in 1..Len(rows) : rows[k].image_url # NoUrl}

\* C13 as stated: when a run completes, cover_image is the image URL of the
\* lowest-numbered page whose image generation succeeded, and is null if and
\* only if no page's image succeeded.
C13_CoverIsFirstSuccessfulImage ==
    book.status = "completed" =>
        LET rows == RunRows(book.by)
            S    == WithImage(rows)
        IN  IF S = {} THEN book.cover_image = NoUrl
            ELSE \E k \in S :
                    /\ \A j \in S : rows[k].page_number <= rows[j].page_number
                    /\ book.cover_image = rows[k].image_url

\* C13 amended: when a run completes, cover_image is the image URL of the
\* first page the run persisted if that page has an image; otherwise the
\* cover is left as it was before (null unless an earlier run set it), even
\* when a later page has an image.
C13_CoverIsFirstPageImage ==
    [][book'.status = "completed" /\ book' # book =>
         LET rows == SelectSeq(pages', LAMBDA row : row.run = book'.by)
         IN  book'.cover_image =
                 IF rows # << >> /\ rows[1].image_url # NoUrl
                 THEN rows[1].image_url
                 ELSE book.cover_image]_vars

C13_Witness ==
    /\ book.status = "completed"
    /\ book.cover_image = NoUrl
    /\ RunRows(book.by) # << >>
    /\ RunRows(book.by)[1].image_url = NoUrl
    /\ WithImage(RunRows(book.by)) # {}

\* C14: the progress values a poll of the job can observe (the meta of the
\* state PROGRESS) never decrease over the life of the job, across all
\* stages and all executions of the job, a redelivered execution included.
\* job.progress keeps the value last written by update_state.
C14_ProgressNeverDecreases ==
    [][job'.state = "PROGRESS" => job'.progress >= job.progress]_vars

C16_FailedRunIsFailure ==
    job.result = "FAILED" => job.state # "SUCCESS"

\* cancel_task was called before any worker picked the job up
CancelledWhilePending == revoked /\ nstarted = 0

\* C17: if cancel_task is called while the job is still PENDING, no execution
\* of the job ever starts (so the Content Client is never called for it) and
\* the job reaches the terminal state REVOKED.
C17_CancelPendingNeverRuns ==
    [](CancelledWhilePending =>
          /\ [](nstarted = 0 /\ \A w \in Workers : ~Active(w))
          /\ <>(job.state = "REVOKED"))

C17_Witness ==
    /\ CancelledWhilePending
    /\ job.state = "REVOKED"
    /\ pages = << >>

\* C18: cancel_task on a job that is already in the state SUCCESS or FAILURE
\* is a no-op: the job's state, the book's status and cover and the persisted
\* pages are unchanged.  The step of cancel_task is the one that adds the id
\* to the revoked set.
C18_CancelTerminalIsNoOp ==
    [][~revoked /\ revoked' /\ job.state \in {"SUCCESS", "FAILURE"} =>
          /\ job' = job
          /\ book' = book
          /\ pages' = pages]_vars

NonDecreasing(s) == \A k \in 1..(Len(s) - 1) : s[k] <= s[k + 1]

\* C19: within one run, the page_number values in the order the pages are
\* persisted are non-decreasing, and so are those of the page_completed
\* events in the order they are published, for any page list the text
\* service returned.
C19_PagesInOrder ==
    \A c \in Ctxs :
        LET r    == runs[c]
            rows == RunRows(r.id)
            evs  == SelectSeq(r.published, LAMBDA ev : ev.type = "page_completed")
        IN  /\ NonDecreasing([k \in 1..Len(rows) |-> rows[k].page_number])
            /\ NonDecreasing([k \in 1..Len(evs) |-> evs[k].page])

\* C20: during a run each page is committed on its own, not in a batch: every
\* commit that makes rows visible to a reader of the book makes exactly one
\* more row visible, so the first i pages are durable as soon as the i-th has
\* been persisted.
C20_OneCommitPerPage ==
    [][pages' # pages => \E row \in Rows' : pages' = Append(pages, row)]_vars

-----------------------------------------------------------------------------
(* Properties of the progress events *)

\* how many times the run published the event
Count(r, ev) == Cardinality({j \in 1..Len(r.published) : r.published[j] = ev})

\* C21: in a run that reaches Completed, page_completed is published for
\* page p exactly once if p's image generation succeeded and not at all
\* otherwise, and at any time a published page_completed is for a page whose
\* row the run has already committed.
C21_PageCompletedEvents ==
    \A c \in Ctxs :
        LET r == runs[c]
        IN  /\ \A j \in 1..Len(r.published) :
                  r.published[j].type = "page_completed" =>
                      \E row \in Rows : /\ row.run = r.id
                                        /\ row.page_number = r.published[j].page
            /\ Finished(r) /\ r.result = "returned" =>
                  \A k \in 1..Len(r.story) :
                      Count(r, Event("page_completed", r.story[k])) =
                          IF k \in r.img_ok THEN 1 ELSE 0

\* C22: a run whose story has page_count pages publishes one image_progress
\* event for the image attempt of every page i in 1..page_count, whether the
\* attempt succeeded or failed terminally: page_count events in all.
C22_ImageProgressEveryAttempt ==
    \A c \in Ctxs :
        LET r == runs[c]
        IN  /\ Finished(r) /\ r.kind = "service" /\ r.story_state = "ok"
            /\ Len(r.story) = r.page_count
            =>  /\ \A i \in 1..r.page_count :
                      Count(r, Event("image_progress", i)) = 1
                /\ Cardinality({j \in 1..Len(r.published) :
                                   r.published[j].type = "image_progress"})
                       = r.page_count

\* the step is a call of ws_manager.send_progress by the service run
Publishes == Len(runs'[Svc].published) = Len(runs[Svc].published) + 1

\* C23: a publication for a client_id that is not registered delivers the
\* event to nobody, raises no error (the run goes on as after a delivery) and
\* leaves the registry unchanged; a registration delivers nothing, and a
\* connection only ever receives the event being published while it is the
\* one registered: no buffering, no replay.
C23_UnregisteredDropsNoReplay ==
    [][/\ Publishes /\ active_connections[BookId] = NoConn =>
             /\ inbox' = inbox
             /\ active_connections' = active_connections
             /\ runs'[Svc].pc # "s_except"
             /\ Len(runs'[Svc].image_urls) <= Len(runs[Svc].image_urls) + 1
       /\ active_connections' # active_connections => inbox' = inbox
       /\ \A c \in Conns : inbox'[c] # inbox[c] =>
             /\ Publishes
             /\ active_connections[BookId] = c
             /\ inbox'[c] = Append(inbox[c],
                                   runs'[Svc].published[Len(runs'[Svc].published)])
      ]_vars

C23_Witness ==
    /\ Len(runs[Svc].published) > 0
    /\ \E c \in Conns : /\ active_connections[BookId] = c
                        /\ ws[c].state = "open"
                        /\ inbox[c] = << >>

\* C24: a book whose status is Completed has a non-empty title and a
\* non-empty description, for any story the text service may return and
\* whether or not the request supplied a title.
C24_CompletedHasTitleAndDescription ==
    book.status = "completed" => book.title # "" /\ book.description # ""

-----------------------------------------------------------------------------
(* Properties of the job queue, continued *)

Unacknowledged == job.queued \/ \E w \in Workers : Active(w)

\* executions a job can have within the bound on faults
Executions == 1..(MaxFaults + 1)

RepeatedFailures ==
    /\ rc.busy
    /\ ~rc.out.returned
    /\ rc.out.attempts = max_retries + 1

\* a call on the current endpoint returned a result
SuccessfulCall == rc.busy /\ rc.out.returned

\* C27: with a backup address configured, repeated failures of a call while
\* the client is on the primary endpoint lead to the client being on the
\* backup endpoint, and a successful call while it is on the backup endpoint
\* leads to the client being back on the primary endpoint.
C27_FallbackToggle ==
    /\ (RepeatedFailures /\ fb.backup_url # None /\ ~fb.use_backup)
          ~> (fb.use_backup /\ fb.current_url = fb.backup_url)
    /\ (SuccessfulCall /\ fb.use_backup)
          ~> (~fb.use_backup /\ fb.current_url = fb.primary_url)

\* the step in which the creation request returns its response
CreationReturns == api = NoResponse /\ api' # NoResponse

\* C28: the creation request creates the one Book, in Draft, and queues the
\* one job for it; it returns that job's id while no orchestrator run has
\* started and no Content Client call has been made, and the status its
\* response reports for the book is draft.
C28_CreationRequest ==
    [][CreationReturns =>
          /\ book = NoBook /\ book'.status = "draft"
          /\ job = NoJob /\ job'.queued /\ job'.state = "PENDING"
          /\ api'.book_id = BookId /\ api'.task_id = task_id
          /\ nstarted' = 0 /\ nservice' = 0
          /\ \A c \in Ctxs : runs'[c] = IdleRun
          /\ rc' = IdleCall
          /\ api'.status = book'.status]_vars

\* the calls of `identifier` that were allowed at a time in (lo, hi]
AllowedWithin(identifier, lo, hi) ==
    { i \in 1..Len(history) :
        /\ history[i].identifier = identifier
        /\ history[i].allowed
        /\ lo < history[i].t /\ history[i].t <= hi }

\* every call `identifier` made before call i is older than the window
EarlierCallsExpired(i) ==
    \A j \in 1..(i - 1) :
        history[j].identifier = history[i].identifier =>
            history[j].t < history[i].t - limiter.window_seconds

\* C29: for every identifier and every trailing interval (t - W, t] of W
\* seconds, at most N of the identifier's calls in the interval were allowed;
\* and a call made when every earlier call of its identifier is older than W
\* seconds is allowed.
C29_SlidingWindow ==
    /\ \A identifier \in Identifiers : \A t \in 0..clock :
          Cardinality(AllowedWithin(identifier, t - limiter.window_seconds, t))
              <= limiter.max_requests
    /\ \A i \in 1..Len(history) : EarlierCallsExpired(i) => history[i].allowed

\* a call was denied because the window was full, and a later call of the
\* same identifier, made after the window had passed, was allowed
C29_Witness ==
    \E i, j \in 1..Len(history) :
        /\ i < j
        /\ history[i].identifier = history[j].identifier
        /\ ~history[i].allowed
        /\ EarlierCallsExpired(j)
        /\ history[j].allowed

\* what the calls of `identifier` in h returned: outcome and remaining count
Returned(h, identifier) ==
    LET own == SelectSeq(h, LAMBDA c : c.identifier = identifier)
    IN  [i \in 1..Len(own) |-> <<own[i].allowed, own[i].remaining>>]

\* C30: whatever the interleaving of the calls of two identifiers, each call
\* of an identifier returns the outcome and the remaining count it returns
\* in the run where the other identifier makes no call.
C30_IdentifiersIndependent ==
    \A identifier \in Identifiers :
        Returned(history, identifier) = Returned(solo[identifier].history, identifier)

\* user_b has used up its window, and user_a, calling afterwards, is allowed
\* its first call and denied a later one
C30_Witness ==
    \E i, j, k \in 1..Len(history) :
        /\ i < j /\ j < k
        /\ history[i].identifier = "user_b" /\ ~history[i].allowed
        /\ history[j].identifier = "user_a" /\ history[j].allowed
        /\ history[k].identifier = "user_a" /\ ~history[k].allowed

\* the step is a call of delete_book
DeleteReturns == last'.op = "delete_book" /\ last' # last

\* C31: a delete_book of an existing book leaves neither the book nor a page
\* of it and a get of the id reports not found, then and at any later time;
\* a delete_book of an id without a book reports failure and changes no book
\* and no page.
C31_DeleteBook ==
    /\ [][DeleteReturns =>
            IF query_book(book, last'.id) # NoBook
            THEN /\ last'.result = TRUE
                 /\ book' = NoBook
                 /\ pages' = << >>
                 /\ get_book(book', last'.id) = None
            ELSE /\ last'.result = FALSE
                 /\ book' = book
                 /\ pages' = pages]_vars
    /\ [][get_book(book, BookId) = None => get_book(book', BookId) = None]_vars

\* a book with committed pages was deleted, and a delete of a missing id
\* was refused afterwards
C31_Witness ==
    /\ book = NoBook
    /\ last.op = "delete_book" /\ last.result = FALSE /\ last.id = MissingId
    /\ pages = << >>
    /\ job.result = "SUCCESS"

\* What the responses of the text and image services given to run r
\* determine: the status, the cover and the pages of a run that publishes to
\* nobody.
OutcomeStatus(r) == IF r.story_state = "ok" THEN "completed" ELSE "failed"

OutcomeImage(r, k) == IF k \in r.img_ok THEN Url(r.id, k) ELSE NoUrl

OutcomeCover(r) == IF r.story_state = "ok" /\ 1 \in r.img_ok THEN Url(r.id, 1) ELSE NoUrl

OutcomePages(r) ==
    IF r.story_state = "ok"
    THEN [k \in 1..Len(r.story) |->
            [page_number |-> r.story[k], image_url |-> OutcomeImage(r, k), run |-> r.id]]
    ELSE << >>

\* C32: the status, the cover and the pages a finished run leaves are those
\* its text and image responses determine, whether its events went to
\* nobody, were all delivered, or met a closed connection.
C32_ChannelDoesNotInfluence ==
    LET r == runs[Svc]
    IN  r.kind = "service" /\ r.pc = "done" =>
            /\ book.status = OutcomeStatus(r)
            /\ book.cover_image = OutcomeCover(r)
            /\ pages = OutcomePages(r)

\* C33: the list generate_book_images builds holds one entry per page
\* processed so far, in page order: the page's url if its image succeeded and
\* None otherwise; so a committed row carries the image generated for its
\* own position.
C33_OneUrlPerPage ==
    \A c \in Ctxs :
        LET r == runs[c]
        IN  /\ Len(r.image_urls) <= Len(r.story)
            /\ \A k \in 1..Len(r.image_urls) : r.image_urls[k] = OutcomeImage(r, k)
            /\ \A j \in 1..Len(pages) :
                  pages[j].run = r.id /\ pages[j].image_url # NoUrl =>
                      r.story[pages[j].image_url.pos] = pages[j].page_number

\* websocket_endpoint of connection c leaves its loop
EndpointExits(c) == ws[c].state = "closed" /\ ws'[c].state = "gone"

\* C34: a client_id is registered to one connection at most, and when the
\* endpoint of a connection exits, a client_id registered to another
\* connection stays registered to it, so that connection receives what is
\* published next.
C34_DisconnectRemovesOwnRegistration ==
    [][\A c \in Conns : EndpointExits(c) =>
          \A client \in ClientIds :
              active_connections[client] # c =>
                  active_connections'[client] = active_connections[client]]_vars

\* an event of the given type is delivered to connection c in this step
Delivered(c, type) ==
    /\ Len(inbox'[c]) = Len(inbox[c]) + 1
    /\ inbox'[c][Len(inbox'[c])].type = type

\* C35: when generation_completed is delivered, the committed status is
\* already Completed and a row is committed for every page of the run's
\* story; when generation_failed is delivered the committed status is
\* already Failed.
C35_TerminalEventAfterCommit ==
    [][\A c \in Conns :
          /\ Delivered(c, "generation_completed") =>
                /\ book.status = "completed"
                /\ book.by = runs[Svc].id
                /\ Len(RunRows(runs[Svc].id)) = Len(runs[Svc].story)
          /\ Delivered(c, "generation_failed") =>
                /\ book.status = "failed"
                /\ book.by = runs[Svc].id]_vars

\* a subscriber has received the generation_completed of a run that
\* committed all its pages
C35_Witness ==
    \E c \in Conns :
        /\ inbox[c] # << >>
        /\ inbox[c][Len(inbox[c])].type = "generation_completed"
        /\ Len(pages) = PageCount
        /\ book.status = "completed"

\* the requests before request i that were accepted within the window
\* that ends at request i
AcceptedBefore(i) ==
    { j \in 1..(i - 1) :
        /\ history[j].identifier = history[i].identifier
        /\ history[j].status_code = 200
        /\ history[j].t > history[i].t - strict[2] }

\* C36: a create-book request of a client that has had 10 requests accepted
\* in the 60 seconds before it is answered 429, and the books created and
\* the jobs queued are those of the accepted requests.
C36_CreateBookRateLimited ==
    /\ \A i \in 1..Len(history) :
          Cardinality(AcceptedBefore(i)) >= strict[1] => history[i].status_code = 429
    /\ last.books = Cardinality({j \in 1..Len(history) : history[j].status_code = 200})
    /\ last.jobs = last.books

\* the calls of its identifier before call i that were allowed and lie in
\* the window that ends at call i
AllowedBefore(i) ==
    { j \in 1..(i - 1) :
        /\ history[j].identifier = history[i].identifier
        /\ history[j].allowed
        /\ history[j].t > history[i].t - limiter.window_seconds }

\* C37: a call is allowed whenever fewer than max_requests allowed calls of
\* its identifier lie in the trailing window: denied calls use up no quota,
\* so a client that goes on calling while blocked is allowed again once its
\* allowed calls have left the window.
C37_DeniedCallsConsumeNoQuota ==
    \A i \in 1..Len(history) :
        Cardinality(AllowedBefore(i)) < limiter.max_requests => history[i].allowed

\* a call of one of the two switch methods
SwitchCall == switch_to_backup \/ switch_to_primary

\* C38: current_url is backup_url when use_backup is true and primary_url
\* otherwise; a client without backup_url stays on the primary; and a switch
\* method returns True for a call that changed the endpoint and for no other.
C38_FallbackState ==
    /\ [](/\ fb.current_url = IF fb.use_backup THEN fb.backup_url ELSE fb.primary_url
          /\ fb.backup_url = None =>
                ~fb.use_backup /\ fb.current_url = fb.primary_url)
    /\ [][SwitchCall =>
            (last'.result <=> fb'.current_url # fb.current_url)]_vars

\* the client is on the backup endpoint and a second switch_to_backup has
\* returned False
C38_Witness ==
    /\ fb.use_backup
    /\ last.op = "switch_to_backup"
    /\ ~last.result

\* the step is a run of regenerate_page_image_task (no task of the queue
\* moves in it)
RegenerateReturns ==
    /\ last'.op = "regenerate_page_image"
    /\ runs' = runs
    /\ last' # last \/ pages' # pages

\* the rows a run for (book_id, page_number) is about
TargetRows(book_id, page_number) ==
    IF book_id = BookId /\ book # NoBook THEN PagePositions(page_number) ELSE {}

\* C39: a run of regenerate_page_image_task for (book_id, page_number) whose
\* book and page exist and whose image is generated gives one row of that
\* page number the new url and returns SUCCESS; any other run changes no row
\* and returns FAILED; no run changes the book or a row of another page.
C39_RegenerateChangesOnePage ==
    [][RegenerateReturns =>
          LET T == TargetRows(last'.id, last'.page_number)
          IN  /\ book' = book
              /\ Len(pages') = Len(pages)
              /\ \A k \in 1..Len(pages) : k \notin T => pages'[k] = pages[k]
              /\ IF T # {} /\ last'.image_ok
                 THEN /\ last'.status = "SUCCESS"
                      /\ \E k \in T :
                            /\ pages'[k] = [pages[k] EXCEPT !.image_url = RegeneratedUrl(k)]
                            /\ \A j \in T \ {k} : pages'[j] = pages[j]
                 ELSE /\ last'.status = "FAILED"
                      /\ pages' = pages]_vars

=============================================================================
